---- MODULE Spec2Model ----
(***************************************************************************)
(* The authoritative game server of msacar/car-game (the socket.io server  *)
(* with server-side collision arbitration), as a state machine: one action *)
(* per socket.io handler and one for the periodic room sweep.               *)
(*                                                                         *)
(* Numbers.  Coordinates and velocities are JavaScript doubles; here they  *)
(* are fixed-point integers with Scale steps per unit, divisions round to  *)
(* the nearest step and Math.sqrt is the integer square root.              *)
(* Time.  Date.now() is read in minutes; it advances only between          *)
(* handlers, in steps of the sweep interval.                               *)
(* Heap.  gameState.players and room.players hold references to the same   *)
(* PlayerData objects.  Here room.players holds the objects by value and   *)
(* gameState.players holds, per socket id, the id of the room whose entry  *)
(* is the registered object (PlayerOf dereferences it).                    *)
(***************************************************************************)
EXTENDS Integers, Sequences, FiniteSets, TLC

\* ------------------------------------------------------------------ bounds
\* sockets that may connect in the full server specification
MaxSockets == 3
\* sockets that may connect in the join/leave specification
RoomSockets == 9
\* sockets that may connect in the room-life specification
LifeSockets == 2
\* handler runs explored by each specification
SyncSteps == 7
RoomSteps == 5
LifeSteps == 8

\* SpecDrain: members that join again, and handlers run
DrainRejoiners == 1
DrainSteps == 16

\* SpecFull: members that act, and handlers run
FullSenders == 2
FullSteps == 3

\* SpecPhysics: calls of updatePhysics in a row
PhysicsSteps == 4

\* SpecClient: remote players a client hears of, network events it handles
ClientPeers == 2
ClientEvents == 4

\* SpecFrame: animation frames in a row
FrameSteps == 3

\* ---------------------------------------------------- program constants
maxPlayersPerRoom == 8
spacing == 10
spawnZOffset == 20
nameLimit == 20

\* substring(0, 200) of a chat message
messageLimit == 200
carLength == 24
carWidth == 12
maxAgeMinutes == 30
sweepEveryMinutes == 5
\* fixed-point steps per unit of length
Scale == 100

\* ------------------------------------------------------- JavaScript values
Undefined == [undefined |-> TRUE]

Vec(x, y, z) == [x |-> x, y |-> y, z |-> z]

\* a vector given in whole units
UVec(x, y, z) == Vec(x * Scale, y * Scale, z * Scale)

Str(chars) == [type |-> "string", chars |-> chars]

Num(n) == [type |-> "number", value |-> n]

NoName == [type |-> "undefined"]

\* a / b rounded to the nearest integer, halves away from zero (b > 0)
Div(a, b) == IF a >= 0 THEN (2 * a + b) \div (2 * b) ELSE -((2 * (-a) + b) \div (2 * b))

RECURSIVE SqrtSearch(_, _, _)
SqrtSearch(n, lo, hi) ==
    IF lo >= hi THEN lo
    ELSE LET mid == (lo + hi + 1) \div 2
         IN IF mid * mid <= n THEN SqrtSearch(n, mid, hi) ELSE SqrtSearch(n, lo, mid - 1)

\* Math.floor(Math.sqrt(n)) for n >= 0
ISqrt(n) == SqrtSearch(n, 0, IF n < 46340 THEN n ELSE 46340)

\* Math.ceil(Math.sqrt(n))
CeilSqrt(n) == LET r == ISqrt(n) IN IF r * r = n THEN r ELSE r + 1

DigitChars == <<"0", "1", "2", "3", "4", "5", "6", "7", "8", "9">>

RECURSIVE Digits(_)
\* the decimal digits of n >= 0, as `${n}` prints them
Digits(n) ==
    IF n < 10 THEN <<DigitChars[n + 1]>>
    ELSE Digits(n \div 10) \o <<DigitChars[(n % 10) + 1]>>

WhiteSpace == {" ", "\t", "\n"}

RECURSIVE TrimStart(_)
TrimStart(cs) ==
    IF cs # <<>> /\ Head(cs) \in WhiteSpace THEN TrimStart(Tail(cs)) ELSE cs

RECURSIVE TrimEnd(_)
TrimEnd(cs) ==
    IF cs # <<>> /\ cs[Len(cs)] \in WhiteSpace THEN TrimEnd(SubSeq(cs, 1, Len(cs) - 1)) ELSE cs

\* String.prototype.trim
Trim(cs) == TrimEnd(TrimStart(cs))

\* String.prototype.substring(0, n)
Substring0(cs, n) == IF Len(cs) <= n THEN cs ELSE SubSeq(cs, 1, n)

\* ------------------------------------------------- ordered maps (JS Map)
\* position of key id in an insertion-ordered map of records with an id, or 0
IndexOf(m, id) ==
    IF \E i \in 1..Len(m) : m[i].id = id
    THEN CHOOSE i \in 1..Len(m) : m[i].id = id
    ELSE 0

MapHas(m, id) == IndexOf(m, id) # 0

MapGet(m, id) == m[IndexOf(m, id)]

\* Map.set: an existing key keeps its place, a new key goes last
MapSet(m, rec) ==
    IF MapHas(m, rec.id) THEN [m EXCEPT ![IndexOf(m, rec.id)] = rec] ELSE Append(m, rec)

MapDelete(m, id) == SelectSeq(m, LAMBDA rec : rec.id # id)

MapKeys(m) == {m[i].id : i \in 1..Len(m)}

\* ------------------------------------------------------ server utilities
PlayerPrefix == <<"P", "l", "a", "y", "e", "r", "_">>

\* validatePlayerName: the guard that throws 'Invalid player name'
NameThrows(name) == name.type # "string" \/ name.chars = <<>>

\* validatePlayerName without the placeholder fallback
validatePlayerNameNoFallback(name, t) == Substring0(Trim(name.chars), nameLimit)

\* validatePlayerName: the value returned when the guard passes
validatePlayerName(name, t) ==
    LET cut == Substring0(Trim(name.chars), nameLimit)
    IN IF cut # <<>> THEN cut ELSE PlayerPrefix \o Digits(t)

\* validateMessage: the guard that throws 'Invalid message'
MessageThrows(message) == message.type # "string" \/ message.chars = <<>>

\* validateMessage: the value returned when the guard passes
validateMessage(message) == Substring0(Trim(message.chars), messageLimit)

\* generateRoomId: a random id, taken to be one that nothing refers to
generateRoomId(rs, joined) ==
    LET used == MapKeys(rs) \cup UNION {joined[s] : s \in DOMAIN joined}
    IN CHOOSE n \in 1..(Cardinality(used) + 1) :
           n \notin used /\ \A k \in 1..(n - 1) : k \in used

\* findAvailableRoom with <= for < in the test for a free place
findAvailableRoomOffByOne(rs, joined, t) ==
    LET free == {i \in 1..Len(rs) : Len(rs[i].players) <= maxPlayersPerRoom}
    IN IF free # {}
       THEN [rooms |-> rs, roomId |-> rs[CHOOSE i \in free : \A k \in free : i <= k].id]
       ELSE LET newRoomId == generateRoomId(rs, joined)
            IN [rooms |-> Append(rs, [id |-> newRoomId, players |-> <<>>, createdAt |-> t]),
                roomId |-> newRoomId]

\* findAvailableRoom: the first room with a free place, else a new room
findAvailableRoom(rs, joined, t) ==
    LET free == {i \in 1..Len(rs) : Len(rs[i].players) < maxPlayersPerRoom}
    IN IF free # {}
       THEN [rooms |-> rs, roomId |-> rs[CHOOSE i \in free : \A k \in free : i <= k].id]
       ELSE LET newRoomId == generateRoomId(rs, joined)
            IN [rooms |-> Append(rs, [id |-> newRoomId, players |-> <<>>, createdAt |-> t]),
                roomId |-> newRoomId]

\* the grid position with % for / in the row
SpawnAtModRow(playerCount) ==
    LET gridSize == CeilSqrt(maxPlayersPerRoom)
    IN Vec(((playerCount % gridSize) * spacing) * Scale - ((gridSize * spacing) * Scale) \div 2,
           0,
           ((playerCount % gridSize) * spacing - spawnZOffset) * Scale)

\* the grid position for a given member count
SpawnAt(playerCount) ==
    LET gridSize == CeilSqrt(maxPlayersPerRoom)
    IN Vec(((playerCount % gridSize) * spacing) * Scale - ((gridSize * spacing) * Scale) \div 2,
           0,
           ((playerCount \div gridSize) * spacing - spawnZOffset) * Scale)

getRandomSpawnPosition(rs, roomId) ==
    SpawnAt(IF MapHas(rs, roomId) THEN Len(MapGet(rs, roomId).players) ELSE 0)

\* ------------------------------------------------ server-side arbitration
ZeroVec == Vec(0, 0, 0)

\* a line written by console.log ("log") or console.error ("error")
Log(level, text, args) == [level |-> level, text |-> text, args |-> args]

\* collisionRadius = Math.sqrt(carLength^2 + carWidth^2) * 0.5
collisionRadius == Div(ISqrt((carLength * carLength + carWidth * carWidth) * Scale * Scale), 2)

\* collisionRadius * collisionRadius, which the doubles make 180.00000000000003
collisionRadiusSq == ((carLength * carLength + carWidth * carWidth) * Scale * Scale) \div 4

\* collisionRadius * 1.1
minSeparationDistance == Div(ISqrt((carLength * carLength + carWidth * carWidth) * Scale * Scale) * 11, 20)

RECURSIVE PairsFrom(_, _, _)
\* the pairs the two nested loops visit from (i, j) on
PairsFrom(i, j, n) ==
    IF i >= n THEN <<>>
    ELSE IF j > n THEN PairsFrom(i + 1, i + 2, n)
    ELSE <<<<i, j>>>> \o PairsFrom(i, j + 1, n)

\* the pairs (i, j), i < j, in the order of the two nested loops
PairsInOrder(n) == PairsFrom(1, 2, n)

\* the body of the inner loop for playersArr[i], playersArr[j]; threw is the
\* TypeError of reading .x of an undefined position
ResolvePair(ps, i, j) ==
    LET playerA == ps[i]
        playerB == ps[j]
        posA == playerA.position
        posB == playerB.position
    IN IF posA = Undefined \/ posB = Undefined THEN [players |-> ps, threw |-> TRUE, logs |-> <<>>]
       ELSE
       LET velA == IF playerA.velocity = Undefined THEN ZeroVec ELSE playerA.velocity
           velB == IF playerB.velocity = Undefined THEN ZeroVec ELSE playerB.velocity
           dx == posA.x - posB.x
           dz == posA.z - posB.z
           distSq == dx * dx + dz * dz
       IN IF ~(distSq <= collisionRadiusSq) THEN [players |-> ps, threw |-> FALSE, logs |-> <<>>]
          ELSE
          LET dist == IF ISqrt(distSq) = 0 THEN Scale ELSE ISqrt(distSq)
              nx == Div(dx * Scale, dist)
              nz == Div(dz * Scale, dist)
              relativeVelX == velA.x - velB.x
              relativeVelZ == velA.z - velB.z
              velocityAlongNormal == Div(relativeVelX * nx + relativeVelZ * nz, Scale)
          IN IF velocityAlongNormal > 0 THEN [players |-> ps, threw |-> FALSE, logs |-> <<>>]
             ELSE
             LET impulseScalar == Div(-13 * velocityAlongNormal, 10)
                 impulseX == Div(nx * impulseScalar, Scale)
                 impulseZ == Div(nz * impulseScalar, Scale)
                 separationNeeded == minSeparationDistance - dist
                 separation == Div(separationNeeded, 2)
                 moveX == IF separationNeeded > 0 THEN Div(nx * separation, Scale) ELSE 0
                 moveZ == IF separationNeeded > 0 THEN Div(nz * separation, Scale) ELSE 0
                 newA == [playerA EXCEPT
                            !.velocity = Vec(velA.x + impulseX, velA.y, velA.z + impulseZ),
                            !.position = Vec(posA.x + moveX, posA.y, posA.z + moveZ)]
                 newB == [playerB EXCEPT
                            !.velocity = Vec(velB.x - impulseX, velB.y, velB.z - impulseZ),
                            !.position = Vec(posB.x - moveX, posB.y, posB.z - moveZ)]
             IN [players |-> [ps EXCEPT ![i] = newA, ![j] = newB], threw |-> FALSE,
                 logs |-> <<Log("log", "Server collision", <<playerA.name, playerB.name>>)>>]

RECURSIVE ResolvePairs(_, _, _, _)
ResolvePairs(ps, pairs, k, logs) ==
    IF k > Len(pairs) THEN [players |-> ps, threw |-> FALSE, logs |-> logs]
    ELSE LET r == ResolvePair(ps, pairs[k][1], pairs[k][2])
         IN IF r.threw THEN [r EXCEPT !.logs = logs]
            ELSE ResolvePairs(r.players, pairs, k + 1, logs \o r.logs)

\* handlePlayerCollisions(room): one pass over all pairs of room.players
handlePlayerCollisions(ps) == ResolvePairs(ps, PairsInOrder(Len(ps)), 1, <<>>)

\* the test of line 172 for two positions: distSq < collisionRadiusSq
PairCollides(posA, posB) ==
    (posA.x - posB.x) * (posA.x - posB.x) + (posA.z - posB.z) * (posA.z - posB.z)
        <= collisionRadiusSq

\* -------------------------------------------------------- client physics
\* A car is [position, quarter, extra, size]: its yaw is quarter * pi/2 plus
\* extra (fixed-point radians), size is the footprint of its model along its
\* own x and z axes.  The detector is modelled for extra = 0, where sines and
\* cosines are exact.
Car(position, quarter, size) ==
    [position |-> position, quarter |-> quarter, extra |-> 0, size |-> size]

CosQ(q) == <<1, 0, -1, 0>>[(q % 4) + 1]

SinQ(q) == <<0, 1, 0, -1>>[(q % 4) + 1]

MaxOf(S) == CHOOSE m \in S : \A n \in S : n <= m

MinOf(S) == CHOOSE m \in S : \A n \in S : m <= n

\* computeCarBoundingBox(car).size: the extent of the world-axis box around the
\* turned model
computeCarBoundingBox(car) ==
    IF car.quarter % 2 = 1 THEN [x |-> car.size.z, z |-> car.size.x] ELSE car.size

\* corner.applyQuaternion(car.quaternion): a turn about the y axis
applyQuaternion(c, q) ==
    [x |-> c.x * CosQ(q) + c.z * SinQ(q), z |-> c.z * CosQ(q) - c.x * SinQ(q)]

\* getWorldSpaceCorners: the four corners of the half-size box, turned by the
\* car's yaw and moved to its position
getWorldSpaceCorners(car, size) ==
    LET hx == Div(size.x, 2)
        hz == Div(size.z, 2)
        localCorners == <<[x |-> -hx, z |-> -hz], [x |-> hx, z |-> -hz],
                          [x |-> hx, z |-> hz], [x |-> -hx, z |-> hz]>>
    IN [k \in 1..4 |->
          [x |-> applyQuaternion(localCorners[k], car.quarter).x + car.position.x,
           z |-> applyQuaternion(localCorners[k], car.quarter).z + car.position.z]]

\* isOverlapping with the second half of the test left out
isOverlappingOneSided(cornersA, cornersB, axis) ==
    LET projectionsA == {cornersA[k].x * axis.x + cornersA[k].z * axis.z : k \in 1..4}
        projectionsB == {cornersB[k].x * axis.x + cornersB[k].z * axis.z : k \in 1..4}
    IN ~(MaxOf(projectionsA) < MinOf(projectionsB))

\* isOverlapping: the projections of the two corner sets on axis overlap
isOverlapping(cornersA, cornersB, axis) ==
    LET projectionsA == {cornersA[k].x * axis.x + cornersA[k].z * axis.z : k \in 1..4}
        projectionsB == {cornersB[k].x * axis.x + cornersB[k].z * axis.z : k \in 1..4}
    IN ~(MaxOf(projectionsA) < MinOf(projectionsB) \/ MaxOf(projectionsB) < MinOf(projectionsA))

\* checkRotatedAABBCollision: no axis of either car separates the corner sets
checkRotatedAABBCollision(carA, carB) ==
    LET cornersA == getWorldSpaceCorners(carA, computeCarBoundingBox(carA))
        cornersB == getWorldSpaceCorners(carB, computeCarBoundingBox(carB))
        axesToTest == <<[x |-> CosQ(carA.quarter), z |-> SinQ(carA.quarter)],
                        [x |-> -SinQ(carA.quarter), z |-> CosQ(carA.quarter)],
                        [x |-> CosQ(carB.quarter), z |-> SinQ(carB.quarter)],
                        [x |-> -SinQ(carB.quarter), z |-> CosQ(carB.quarter)]>>
    IN \A k \in 1..4 : isOverlapping(cornersA, cornersB, axesToTest[k])

\* the square of posA.distanceTo(posB), in three dimensions
DistanceSq(posA, posB) ==
    (posA.x - posB.x) * (posA.x - posB.x) + (posA.y - posB.y) * (posA.y - posB.y)
        + (posA.z - posB.z) * (posA.z - posB.z)

\* the longer side of the bounding box (twice maxRadius)
LongSide(car) == MaxOf({computeCarBoundingBox(car).x, computeCarBoundingBox(car).z})

\* checkOBBCollision without the sphere check
checkOBBCollisionNoSphere(carA, carB) == checkRotatedAABBCollision(carA, carB)

\* checkOBBCollision: distance > maxRadiusA + maxRadiusB is compared in squares
checkOBBCollision(carA, carB) ==
    IF 4 * DistanceSq(carA.position, carB.position)
           > (LongSide(carA) + LongSide(carB)) * (LongSide(carA) + LongSide(carB))
    THEN FALSE
    ELSE checkRotatedAABBCollision(carA, carB)

\* posA.sub(posB).normalize() with y forced to 0, and the default (1, 0, 0)
\* when the result has length 0
CollisionNormal(posA, posB) ==
    LET dx == posA.x - posB.x
        dz == posA.z - posB.z
        len == ISqrt(dx * dx + dz * dz)
    IN IF len = 0 THEN [x |-> Scale, z |-> 0]
       ELSE [x |-> Div(dx * Scale, len), z |-> Div(dz * Scale, len)]

\* relativeVelocity.dot(collisionNormal) in the horizontal plane
VelocityAlongNormal(velA, velB, n) ==
    Div((velA.x - velB.x) * n.x + (velA.z - velB.z) * n.z, Scale)

\* resolveCarCollision without the early return for pairs moving apart
resolveCarCollisionAlways(carA, carB, velocityA, velocityB) ==
    LET n == CollisionNormal(carA.position, carB.position)
        velocityAlongNormal == VelocityAlongNormal(velocityA, velocityB, n)
        impulseScalar == Div(-13 * velocityAlongNormal, 10)
    IN [carA |-> carA, carB |-> carB,
        velocityA |-> [velocityA EXCEPT !.x = @ + Div(n.x * impulseScalar, Scale),
                                        !.z = @ + Div(n.z * impulseScalar, Scale)],
        velocityB |-> [velocityB EXCEPT !.x = @ - Div(n.x * impulseScalar, Scale),
                                        !.z = @ - Div(n.z * impulseScalar, Scale)],
        resolved |-> TRUE]

\* resolveCarCollision without the impulse on the two velocities
resolveCarCollisionNoImpulse(carA, carB, velocityA, velocityB) ==
    [carA |-> carA, carB |-> carB, velocityA |-> velocityA, velocityB |-> velocityB,
     resolved |-> VelocityAlongNormal(velocityA, velocityB,
                                      CollisionNormal(carA.position, carB.position)) <= 0]

\* resolveCarCollision(carA, carB, velocityA, velocityB): the two cars and the
\* two velocities as the call leaves them
resolveCarCollision(carA, carB, velocityA, velocityB) ==
    LET n == CollisionNormal(carA.position, carB.position)
        velocityAlongNormal == VelocityAlongNormal(velocityA, velocityB, n)
    IN IF velocityAlongNormal > 0
       THEN [carA |-> carA, carB |-> carB, velocityA |-> velocityA,
             velocityB |-> velocityB, resolved |-> FALSE]
       ELSE
       LET impulseScalar == Div(-13 * velocityAlongNormal, 10)
           impulseX == Div(n.x * impulseScalar, Scale)
           impulseZ == Div(n.z * impulseScalar, Scale)
           separationDistance == Div(LongSide(carA) + LongSide(carB), 4)
           dx == carA.position.x - carB.position.x
           dz == carA.position.z - carB.position.z
           currentDistance2D == ISqrt(dx * dx + dz * dz)
           overlap == IF separationDistance - currentDistance2D > 0
                      THEN separationDistance - currentDistance2D ELSE 0
           separationX == Div(n.x * overlap, 2 * Scale)
           separationZ == Div(n.z * overlap, 2 * Scale)
           magnitude == IF velocityAlongNormal < 0 THEN -velocityAlongNormal
                        ELSE velocityAlongNormal
           impactStrength == IF magnitude < 10 * Scale THEN magnitude ELSE 10 * Scale
           rotationFactor == Div(impactStrength, 50)
           \* Math.sin(Math.atan2(n.z, n.x)) is n.z for a unit normal
           turn == Div(n.z * rotationFactor, Scale)
       IN [carA |-> [carA EXCEPT !.position.x = @ + separationX,
                                 !.position.z = @ + separationZ,
                                 !.extra = @ + turn],
           carB |-> [carB EXCEPT !.position.x = @ - separationX,
                                 !.position.z = @ - separationZ,
                                 !.extra = @ - turn],
           velocityA |-> [velocityA EXCEPT !.x = @ + impulseX, !.z = @ + impulseZ],
           velocityB |-> [velocityB EXCEPT !.x = @ - impulseX, !.z = @ - impulseZ],
           resolved |-> TRUE]

\* ------------------------------------------------- CarPhysicsEngine
\* the constructor's parameters, fixed-point
maxSpeed == 80 * Scale
maxTurnSpeed == 2 * Scale
power == (12 * Scale) \div 10
reverse == (4 * Scale) \div 10

\* the speed below which the car does not turn (0.1)
deadband == Scale \div 10

\* keys[a] || keys[b]
Pressed(keys, a, b) == a \in keys \/ b \in keys

\* Math.sin and Math.cos of a fixed-point angle, by their series up to x^5, x^4
SinFx(x) ==
    LET x2 == Div(x * x, Scale)
        x3 == Div(x2 * x, Scale)
        x5 == Div(x3 * x2, Scale)
    IN x - Div(x3, 6) + Div(x5, 120)

CosFx(x) ==
    LET x2 == Div(x * x, Scale)
        x4 == Div(x2 * x2, Scale)
    IN Scale - Div(x2, 2) + Div(x4, 24)

\* new THREE.Vector3(0, 0, -1).applyQuaternion(car.quaternion), for the yaw
\* car.quarter * pi/2 + car.extra
Forward(car) ==
    LET sin == SinQ(car.quarter) * CosFx(car.extra) + CosQ(car.quarter) * SinFx(car.extra)
        cos == CosQ(car.quarter) * CosFx(car.extra) - SinQ(car.quarter) * SinFx(car.extra)
    IN Vec(-sin, 0, -cos)

\* velocity.length()
Length(v) == ISqrt(v.x * v.x + v.y * v.y + v.z * v.z)

\* v.multiplyScalar(num / den)
Scaled(v, num, den) == Vec(Div(v.x * num, den), Div(v.y * num, den), Div(v.z * num, den))

\* this.physics.acceleration after the input handling
Acceleration(keys) ==
    IF Pressed(keys, "KeyS", "ArrowDown") THEN -reverse
    ELSE IF Pressed(keys, "KeyW", "ArrowUp") THEN power
    ELSE IF Pressed(keys, "KeyA", "ArrowLeft") \/ Pressed(keys, "KeyD", "ArrowRight")
    THEN Div(power * 3, 10)
    ELSE 0

\* this.physics.turnSpeed after the turning block
TurnSpeed(physics, keys) ==
    IF Length(physics.velocity) > deadband
    THEN IF Pressed(keys, "KeyA", "ArrowLeft")
         THEN MinOf({physics.turnSpeed + Scale \div 10, maxTurnSpeed})
         ELSE IF Pressed(keys, "KeyD", "ArrowRight")
         THEN MaxOf({physics.turnSpeed - Scale \div 10, -maxTurnSpeed})
         ELSE Div(physics.turnSpeed * 9, 10)
    ELSE 0

\* the friction step left out
ApplyFrictionNone(v) == v

\* velocity.multiplyScalar(this.physics.friction), friction = 0.95
ApplyFriction(v) == Scaled(v, 95, 100)

\* the speed limit left out
LimitSpeedOff(v) == v

\* if (velocity.length() > maxSpeed) velocity.normalize().multiplyScalar(maxSpeed)
LimitSpeed(v) ==
    IF v.x * v.x + v.y * v.y + v.z * v.z > maxSpeed * maxSpeed
    THEN Scaled(v, maxSpeed, Length(v))
    ELSE v

\* velocity.y = 0 left out
GroundVelocityOff(v) == v

\* velocity.y = 0
GroundVelocity(v) == [v EXCEPT !.y = 0]

\* the velocity after handbrake, acceleration and friction, before the limit
DampedVelocity(car, physics, keys, deltaTime) ==
    LET start == IF "Space" \in keys THEN Scaled(physics.velocity, 95, 100)
                 ELSE physics.velocity
        forward == Forward(car)
        amount == Div(Acceleration(keys) * deltaTime * 60, Scale)
        accelerated == Vec(start.x + Div(forward.x * amount, Scale),
                           start.y + Div(forward.y * amount, Scale),
                           start.z + Div(forward.z * amount, Scale))
    IN ApplyFriction(accelerated)

\* updatePhysics(car, keys, deltaTime): the car and the engine's state after the call
updatePhysics(car, physics, keys, deltaTime) ==
    LET turnSpeed == TurnSpeed(physics, keys)
        velocity == GroundVelocity(LimitSpeed(DampedVelocity(car, physics, keys, deltaTime)))
        forward == Forward(car)
        movingBackward == forward.x * velocity.x + forward.z * velocity.z < 0
        turn == IF Length(velocity) > deadband
                THEN IF movingBackward THEN -Div(turnSpeed * deltaTime, Scale)
                     ELSE Div(turnSpeed * deltaTime, Scale)
                ELSE 0
    IN [car |-> [car EXCEPT !.position = Vec(@.x + Div(velocity.x * deltaTime, Scale), 0,
                                             @.z + Div(velocity.z * deltaTime, Scale)),
                            !.extra = @ + turn],
        physics |-> [velocity |-> velocity, turnSpeed |-> turnSpeed]]

\* ------------------------------------------------------------------ state
VARIABLES
    \* Date.now(), in minutes
    now,
    \* conn[s]: the connection with socket id s, "open" or "closed"
    conn,
    \* gameState.players: socket id -> id of the room holding the registered object
    players,
    \* gameState.rooms: insertion-ordered map of [id, players, createdAt]
    rooms,
    \* socket.io adapter: socketRooms[s] is the set of rooms socket s has joined
    socketRooms,
    \* the messages the last handler emitted, in order
    emitted,
    \* the console lines the last handler wrote, in order
    logged,
    \* the inbound event the last handler was called with
    lastEvent,
    \* call frame of a utility function applied on its own
    probe,
    \* handlers run so far
    steps

vars == <<now, conn, players, rooms, socketRooms, emitted, logged, lastEvent, probe, steps>>

NoProbe == [fn |-> "none"]

Init ==
    /\ now = 0
    /\ conn = <<>>
    /\ players = <<>>
    /\ rooms = <<>>
    /\ socketRooms = <<>>
    /\ emitted = <<>>
    /\ logged = <<>>
    /\ lastEvent = [type |-> "start"]
    /\ probe = NoProbe
    /\ steps = 0

\* gameState.players.get(s), the registered PlayerData object
PlayerOf(s) == MapGet(MapGet(rooms, players[s]).players, s)

\* the sockets io.to(roomId) reaches
InRoom(joined, roomId) == {t \in 1..Len(joined) : roomId \in joined[t]}

Msg(ev, to, data) == [ev |-> ev, to |-> to, data |-> data]

PlayerUpdateOf(p) ==
    [id |-> p.id, position |-> p.position, rotation |-> p.rotation, velocity |-> p.velocity]

\* the loop of io.to(roomId).emit('playerUpdate', ...) over room.players.values()
BroadcastRoom(ps, joined, roomId) ==
    [k \in 1..Len(ps) |-> Msg("playerUpdate", InRoom(joined, roomId), PlayerUpdateOf(ps[k]))]

\* ------------------------------------------------------------- handlers
\* io.on('connection'): a new socket with a fresh id
Connect(limit) ==
    /\ Len(conn) < limit
    /\ conn' = Append(conn, "open")
    /\ socketRooms' = Append(socketRooms, {})
    /\ emitted' = <<>>
    /\ logged' = <<Log("log", "Player connected", <<Len(conn) + 1>>)>>
    /\ lastEvent' = [type |-> "connection", socket |-> Len(conn) + 1]
    /\ UNCHANGED <<now, players, rooms, probe>>

\* socket.on('join')
Join(s, playerData) ==
    /\ conn[s] = "open"
    /\ lastEvent' = [type |-> "join", socket |-> s, data |-> playerData]
    /\ IF NameThrows(playerData.name)
       THEN /\ emitted' = <<Msg("error", {s}, [message |-> "Invalid player name"])>>
            /\ logged' = <<Log("error", "Error handling join", <<"Invalid player name">>)>>
            /\ UNCHANGED <<players, rooms, socketRooms>>
       ELSE LET playerName == validatePlayerName(playerData.name, now)
                found == findAvailableRoom(rooms, socketRooms, now)
                roomId == found.roomId
            IN IF ~MapHas(found.rooms, roomId)
               THEN /\ emitted' = <<Msg("error", {s}, [message |-> "Failed to create or find room"])>>
                    /\ logged' = <<Log("error", "Error handling join", <<"Failed to create or find room">>)>>
                    /\ rooms' = found.rooms
                    /\ UNCHANGED <<players, socketRooms>>
               ELSE LET spawnPosition == getRandomSpawnPosition(found.rooms, roomId)
                        player == [id |-> s, name |-> playerName, roomId |-> roomId,
                                   position |-> spawnPosition, rotation |-> ZeroVec,
                                   velocity |-> ZeroVec]
                        ri == IndexOf(found.rooms, roomId)
                        members == MapSet(found.rooms[ri].players, player)
                    IN /\ players' = (s :> roomId) @@ players
                       /\ rooms' = [found.rooms EXCEPT ![ri].players = members]
                       /\ socketRooms' = [socketRooms EXCEPT ![s] = @ \cup {roomId}]
                       /\ logged' = <<Log("log", "Player joined room", <<playerName, roomId>>)>>
                       /\ emitted' =
                            <<Msg("joined", {s},
                                  [player |-> player, room |-> [id |-> roomId, players |-> members]]),
                              Msg("playerJoined", InRoom(socketRooms', roomId) \ {s}, player)>>
    /\ UNCHANGED <<now, conn, probe>>

\* the broadcast moved before the pass: it sends the states the pass started from
ArbitrateAndBroadcastStale(rs, roomId, handler) ==
    IF ~MapHas(rs, roomId)
    THEN /\ rooms' = rs
         /\ emitted' = <<>>
         /\ logged' = <<>>
    ELSE LET ri == IndexOf(rs, roomId)
             pass == handlePlayerCollisions(rs[ri].players)
         IN /\ rooms' = [rs EXCEPT ![ri].players = pass.players]
            /\ emitted' = BroadcastRoom(rs[ri].players, socketRooms, roomId)
            /\ logged' = IF pass.threw
                         THEN Append(pass.logs, Log("error", handler, <<"TypeError">>))
                         ELSE pass.logs

\* the part of updatePosition and collision after the player's fields are set:
\* one pass over the room, then the broadcast unless the pass threw
ArbitrateAndBroadcast(rs, roomId, handler) ==
    IF ~MapHas(rs, roomId)
    THEN /\ rooms' = rs
         /\ emitted' = <<>>
         /\ logged' = <<>>
    ELSE LET ri == IndexOf(rs, roomId)
             pass == handlePlayerCollisions(rs[ri].players)
         IN /\ rooms' = [rs EXCEPT ![ri].players = pass.players]
            /\ emitted' = IF pass.threw THEN <<>>
                          ELSE BroadcastRoom(pass.players, socketRooms, roomId)
            /\ logged' = IF pass.threw
                         THEN Append(pass.logs, Log("error", handler, <<"TypeError">>))
                         ELSE pass.logs

\* rs with the registered object of s changed to rec
SetPlayer(rs, s, rec) ==
    LET ri == IndexOf(rs, players[s])
    IN [rs EXCEPT ![ri].players = MapSet(@, rec)]

\* socket.on('updatePosition')
UpdatePosition(s, data) ==
    /\ lastEvent' = [type |-> "updatePosition", socket |-> s, data |-> data]
    /\ IF s \notin DOMAIN players
       THEN /\ emitted' = <<>>
            /\ logged' = <<>>
            /\ UNCHANGED rooms
       ELSE IF data.position = Undefined \/ data.rotation = Undefined \/ data.velocity = Undefined
       THEN /\ emitted' = <<>>
            /\ logged' = <<>>
            /\ UNCHANGED rooms
       ELSE LET player == [PlayerOf(s) EXCEPT !.position = data.position,
                                              !.rotation = data.rotation,
                                              !.velocity = data.velocity]
            IN ArbitrateAndBroadcast(SetPlayer(rooms, s, player), player.roomId,
                                     "Error handling position update")
    /\ UNCHANGED <<now, conn, players, socketRooms, probe>>

\* socket.on('collision')
Collision(s, data) ==
    /\ lastEvent' = [type |-> "collision", socket |-> s, data |-> data]
    /\ IF s \notin DOMAIN players \/ data.otherPlayerId \notin DOMAIN players
       THEN /\ emitted' = <<>>
            /\ logged' = <<>>
            /\ UNCHANGED rooms
       ELSE LET player == [PlayerOf(s) EXCEPT !.position = data.position,
                                              !.velocity = data.velocity]
            IN ArbitrateAndBroadcast(SetPlayer(rooms, s, player), player.roomId,
                                     "Error handling collision")
    /\ UNCHANGED <<now, conn, players, socketRooms, probe>>

\* the chatMessage handler without the lookup of the sender's player
ChatMessageNoLookup(s, data) ==
    /\ lastEvent' = [type |-> "chatMessage", socket |-> s, data |-> data]
    /\ IF MessageThrows(data.message)
       THEN /\ emitted' = <<>>
            /\ logged' = <<Log("error", "Error handling chat message", <<"Invalid message">>)>>
       ELSE /\ emitted' = <<Msg("chatMessage", {t \in 1..Len(conn) : conn[t] = "open"},
                                [id |-> now, playerId |-> s, playerName |-> Undefined,
                                 message |-> validateMessage(data.message),
                                 timestamp |-> now])>>
            /\ logged' = <<>>
    /\ UNCHANGED <<now, conn, players, rooms, socketRooms, probe>>

\* socket.on('chatMessage')
ChatMessage(s, data) ==
    /\ lastEvent' = [type |-> "chatMessage", socket |-> s, data |-> data]
    /\ IF s \notin DOMAIN players
       THEN /\ emitted' = <<>>
            /\ logged' = <<>>
       ELSE IF MessageThrows(data.message)
       THEN /\ emitted' = <<>>
            /\ logged' = <<Log("error", "Error handling chat message", <<"Invalid message">>)>>
       ELSE LET player == PlayerOf(s)
            IN /\ emitted' = <<Msg("chatMessage", InRoom(socketRooms, player.roomId),
                                   [id |-> now, playerId |-> s, playerName |-> player.name,
                                    message |-> validateMessage(data.message),
                                    timestamp |-> now])>>
               /\ logged' = <<>>
    /\ UNCHANGED <<now, conn, players, rooms, socketRooms, probe>>

\* the disconnect handler without gameState.players.delete(socket.id)
DisconnectHandlerKeepsEntry(s) ==
    IF s \notin DOMAIN players
    THEN /\ emitted' = <<>>
         /\ logged' = <<>>
         /\ UNCHANGED <<players, rooms>>
    ELSE LET roomId == players[s]
             ri == IndexOf(rooms, roomId)
         IN /\ IF ri = 0
               THEN /\ emitted' = <<>>
                    /\ UNCHANGED rooms
               ELSE IF Len(MapDelete(rooms[ri].players, s)) = 0
               THEN /\ rooms' = MapDelete(rooms, roomId)
                    /\ emitted' = <<>>
               ELSE /\ rooms' = [rooms EXCEPT ![ri].players = MapDelete(@, s)]
                    /\ emitted' = <<Msg("playerLeft", InRoom(socketRooms', roomId) \ {s}, s)>>
            /\ logged' = <<Log("log", "Player disconnected from room", <<roomId>>)>>
            /\ UNCHANGED players

\* the disconnect handler without the removal of the emptied room
DisconnectHandlerKeepsRoom(s) ==
    IF s \notin DOMAIN players
    THEN /\ emitted' = <<>>
         /\ logged' = <<>>
         /\ UNCHANGED <<players, rooms>>
    ELSE LET player == PlayerOf(s)
             roomId == player.roomId
             ri == IndexOf(rooms, roomId)
             members == MapDelete(rooms[ri].players, s)
             left == Log("log", "Player disconnected from room", <<player.name, roomId>>)
         IN /\ IF ri = 0
               THEN /\ emitted' = <<>>
                    /\ logged' = <<left>>
                    /\ UNCHANGED rooms
               ELSE /\ rooms' = [rooms EXCEPT ![ri].players = members]
                    /\ emitted' = IF Len(members) = 0 THEN <<>>
                                  ELSE <<Msg("playerLeft", InRoom(socketRooms', roomId) \ {s}, s)>>
                    /\ logged' = <<left>>
            /\ players' = [t \in DOMAIN players \ {s} |-> players[t]]

\* the body of socket.on('disconnect')
DisconnectHandler(s) ==
    IF s \notin DOMAIN players
    THEN /\ emitted' = <<>>
         /\ logged' = <<>>
         /\ UNCHANGED <<players, rooms>>
    ELSE LET player == PlayerOf(s)
             roomId == player.roomId
             ri == IndexOf(rooms, roomId)
             members == MapDelete(rooms[ri].players, s)
             left == Log("log", "Player disconnected from room", <<player.name, roomId>>)
         IN /\ IF ri = 0
               THEN /\ emitted' = <<>>
                    /\ logged' = <<left>>
                    /\ UNCHANGED rooms
               ELSE IF Len(members) = 0
               THEN /\ rooms' = MapDelete(rooms, roomId)
                    /\ emitted' = <<>>
                    /\ logged' = <<Log("log", "Removed empty room", <<roomId>>), left>>
               ELSE /\ rooms' = [rooms EXCEPT ![ri].players = members]
                    /\ emitted' = <<Msg("playerLeft", InRoom(socketRooms', roomId) \ {s}, s)>>
                    /\ logged' = <<left>>
            /\ players' = [t \in DOMAIN players \ {s} |-> players[t]]

\* the connection closes: socket.io takes the socket out of its rooms, then
\* calls the 'disconnect' handler
Disconnect(s) ==
    /\ conn[s] = "open"
    /\ conn' = [conn EXCEPT ![s] = "closed"]
    /\ socketRooms' = [socketRooms EXCEPT ![s] = {}]
    /\ lastEvent' = [type |-> "disconnect", socket |-> s]
    /\ DisconnectHandler(s)
    /\ UNCHANGED <<now, probe>>

\* the 'disconnect' handler called once more for a connection that has closed
DisconnectRepeat(s) ==
    /\ conn[s] = "closed"
    /\ lastEvent' = [type |-> "disconnect", socket |-> s]
    /\ DisconnectHandler(s)
    /\ UNCHANGED <<now, conn, socketRooms, probe>>

\* the sweep's test on one room at time t
IsOldEmpty(room, t) == Len(room.players) = 0 /\ (t - room.createdAt) > maxAgeMinutes

\* setInterval: the sweep of old empty rooms, every sweepEveryMinutes
Sweep ==
    /\ now' = now + sweepEveryMinutes
    /\ rooms' = SelectSeq(rooms, LAMBDA room : ~IsOldEmpty(room, now'))
    /\ logged' = [k \in 1..Len(SelectSeq(rooms, LAMBDA room : IsOldEmpty(room, now'))) |->
                    Log("log", "Cleaned up old empty room",
                        <<SelectSeq(rooms, LAMBDA room : IsOldEmpty(room, now'))[k].id>>)]
    /\ emitted' = <<>>
    /\ lastEvent' = [type |-> "sweep"]
    /\ UNCHANGED <<conn, players, socketRooms, probe>>

\* ----------------------------------------------------------------- inputs
LongName == [i \in 1..(nameLimit + 2) |-> IF i = 1 THEN " " ELSE "n"]

\* names a client may send with join
AllNames == {Str(<<"a">>), Str(<<>>), Str(<<" ", " ">>), Str(<<" ", "b", " ">>),
             Str(LongName), NoName, Num(7)}

PlainNames == {Str(<<"a">>)}

\* payloads a client may send with updatePosition
UpdateInputs ==
    {[position |-> UVec(0, 0, 0), rotation |-> ZeroVec, velocity |-> UVec(0, 0, 0)],
     [position |-> UVec(-12, 3, -20), rotation |-> ZeroVec, velocity |-> UVec(5, 2, 0)],
     [position |-> Undefined, rotation |-> ZeroVec, velocity |-> UVec(5, 2, 0)],
     [position |-> UVec(0, 0, 0), rotation |-> Undefined, velocity |-> UVec(5, 2, 0)],
     [position |-> UVec(0, 0, 0), rotation |-> ZeroVec, velocity |-> Undefined]}

\* payloads a client may send with collision
CollisionInputs(n) ==
    [otherPlayerId : 1..n,
     position : {UVec(-12, 3, -20), Undefined},
     velocity : {UVec(5, 2, 0), Undefined}]

LongMessage == [i \in 1..(messageLimit + 1) |-> "m"]

\* payloads a client may send with chatMessage
ChatInputs ==
    {[message |-> Str(<<"h", "i">>)], [message |-> Str(<<" ", "y", " ">>)],
     [message |-> Str(<<>>)], [message |-> NoName], [message |-> Str(LongMessage)]}

BriefChatInputs == {[message |-> Str(<<"h", "i">>)], [message |-> Str(<<>>)]}

\* ---------------------------------------------------------- specifications
\* one more handler runs, while fewer than limit have run
Tick(limit) == steps < limit /\ steps' = steps + 1

\* the whole server from its start, few sockets
Next ==
    \/ Tick(SyncSteps) /\ Connect(MaxSockets)
    \/ \E s \in 1..Len(conn), name \in PlainNames :
          Tick(SyncSteps) /\ Join(s, [name |-> name])
    \/ \E s \in 1..Len(conn), data \in UpdateInputs :
          Tick(SyncSteps) /\ UpdatePosition(s, data)
    \/ \E s \in 1..Len(conn), data \in CollisionInputs(Len(conn)) :
          Tick(SyncSteps) /\ Collision(s, data)
    \/ \E s \in 1..Len(conn), data \in ChatInputs :
          Tick(SyncSteps) /\ ChatMessage(s, data)
    \/ \E s \in 1..Len(conn) : Tick(SyncSteps) /\ Disconnect(s)

Spec == Init /\ [][Next]_vars

\* The state after sockets 1..n have connected and joined in that order, all
\* within minute 0 and under the name "a".
Filled(n) ==
    /\ now = 0
    /\ conn = [s \in 1..n |-> "open"]
    /\ players = [s \in 1..n |-> 1]
    /\ rooms = <<[id |-> 1, createdAt |-> 0,
                  players |-> [s \in 1..n |->
                                 [id |-> s, name |-> <<"a">>, roomId |-> 1,
                                  position |-> SpawnAt(s - 1), rotation |-> ZeroVec,
                                  velocity |-> ZeroVec]]]>>
    /\ socketRooms = [s \in 1..n |-> {1}]
    /\ probe = NoProbe

\* joining and leaving around a room that is one short of full
InitRooms ==
    /\ Filled(maxPlayersPerRoom - 1)
    /\ steps = 0
    /\ emitted = <<>>
    /\ logged = <<>>
    /\ lastEvent = [type |-> "start"]

NextRooms ==
    \/ Tick(RoomSteps) /\ Connect(RoomSockets)
    \/ \E s \in 1..Len(conn), name \in PlainNames :
          Tick(RoomSteps) /\ Join(s, [name |-> name])
    \/ \E s \in 1..Len(conn) : Tick(RoomSteps) /\ Disconnect(s)
    \/ \E s \in 1..Len(conn) : Tick(RoomSteps) /\ DisconnectRepeat(s)

SpecRooms == InitRooms /\ [][NextRooms]_vars

\* how the server gets from its start to Filled(maxPlayersPerRoom - 1) and to
\* Filled(maxPlayersPerRoom): each socket joins before the next one connects
\* (TLC reaches both states under SpecFill)
NextFill ==
    \/ /\ \A s \in 1..Len(conn) : s \in DOMAIN players
       /\ Tick(2 * maxPlayersPerRoom)
       /\ Connect(maxPlayersPerRoom)
    \/ \E s \in 1..Len(conn), name \in PlainNames :
          s \notin DOMAIN players /\ Tick(2 * maxPlayersPerRoom) /\ Join(s, [name |-> name])

SpecFill == Init /\ [][NextFill]_vars

\* the life of a room: joins under every kind of name, leaves and the sweep
NextLife ==
    \/ Tick(LifeSteps) /\ Connect(LifeSockets)
    \/ \E s \in 1..Len(conn), name \in AllNames :
          Tick(LifeSteps) /\ Join(s, [name |-> name])
    \/ \E s \in 1..Len(conn), data \in BriefChatInputs :
          Tick(LifeSteps) /\ ChatMessage(s, data)
    \/ \E s \in 1..Len(conn) : Tick(LifeSteps) /\ Disconnect(s)
    \/ Tick(LifeSteps) /\ Sweep

SpecLife == Init /\ [][NextLife]_vars

\* a full room
InitFull ==
    /\ Filled(maxPlayersPerRoom)
    /\ steps = 0
    /\ emitted = <<>>
    /\ logged = <<>>
    /\ lastEvent = [type |-> "start"]

\* a full room drains: some members join again, members leave, and once every
\* connection has closed the sweep runs every sweepEveryMinutes
NextDrain ==
    \/ \E s \in 1..DrainRejoiners, name \in PlainNames :
          Tick(DrainSteps) /\ Join(s, [name |-> name])
    \/ \E s \in 1..Len(conn) : Tick(DrainSteps) /\ Disconnect(s)
    \/ /\ \A s \in 1..Len(conn) : conn[s] = "closed"
       /\ Tick(DrainSteps)
       /\ Sweep

SpecDrain == InitFull /\ [][NextDrain]_vars

\* payloads the members of a full room send
FullUpdateInputs ==
    {[position |-> UVec(-12, 3, -20), rotation |-> ZeroVec, velocity |-> UVec(5, 2, 0)],
     [position |-> UVec(0, 0, 0), rotation |-> ZeroVec, velocity |-> Undefined]}

FullCollisionInputs ==
    [otherPlayerId : 1..FullSenders, position : {UVec(-12, 3, -20)},
     velocity : {UVec(5, 2, 0), Undefined}]

\* a full room and the room that opens beside it: the first FullSenders sockets
\* join again, move, report collisions and leave
NextFull ==
    \/ \E s \in 1..FullSenders, name \in PlainNames :
          Tick(FullSteps) /\ Join(s, [name |-> name])
    \/ \E s \in 1..FullSenders, data \in FullUpdateInputs :
          Tick(FullSteps) /\ UpdatePosition(s, data)
    \/ \E s \in 1..FullSenders, data \in FullCollisionInputs :
          Tick(FullSteps) /\ Collision(s, data)
    \/ \E s \in 1..FullSenders : Tick(FullSteps) /\ Disconnect(s)

SpecFull == InitFull /\ [][NextFull]_vars

\* getRandomSpawnPosition on its own: the positions it gives for two member counts
RoomOfSize(n) ==
    <<[id |-> 1, createdAt |-> 0,
       players |-> [k \in 1..n |->
                      [id |-> k, name |-> <<"a">>, roomId |-> 1, position |-> ZeroVec,
                       rotation |-> ZeroVec, velocity |-> ZeroVec]]]>>

InitSpawn ==
    /\ now = 0
    /\ steps = 0
    /\ conn = <<>>
    /\ players = <<>>
    /\ rooms = <<>>
    /\ socketRooms = <<>>
    /\ emitted = <<>>
    /\ logged = <<>>
    /\ lastEvent = [type |-> "start"]
    /\ probe \in [fn : {"getRandomSpawnPosition"},
                  counts : (0..(maxPlayersPerRoom - 1)) \X (0..(maxPlayersPerRoom - 1)),
                  out : {<<>>}]

SpawnProbe ==
    /\ probe.fn = "getRandomSpawnPosition"
    /\ probe.out = <<>>
    /\ probe' = [probe EXCEPT !.out =
                    <<getRandomSpawnPosition(RoomOfSize(probe.counts[1]), 1),
                      getRandomSpawnPosition(RoomOfSize(probe.counts[2]), 1)>>]
    /\ UNCHANGED <<now, conn, players, rooms, socketRooms, emitted, logged, lastEvent, steps>>

SpecSpawn == InitSpawn /\ [][SpawnProbe]_vars

\* the values every variable but probe has while a function is applied on its own
Idle ==
    /\ now = 0
    /\ steps = 0
    /\ conn = <<>>
    /\ players = <<>>
    /\ rooms = <<>>
    /\ socketRooms = <<>>
    /\ emitted = <<>>
    /\ logged = <<>>
    /\ lastEvent = [type |-> "start"]

\* footprints: the 12 x 24 car the server's comment names, and a square one
Footprints == {[x |-> 12 * Scale, z |-> 24 * Scale], [x |-> 8 * Scale, z |-> 8 * Scale]}

\* cars given to the detector
DetectCars ==
    {Car(UVec(x, y, z), q, size) :
        x \in {0, 11, 13, 25}, y \in {0, 30}, z \in {0, 13, 22}, q \in 0..3,
        size \in Footprints}

\* the detector on its own: checkOBBCollision both ways round, and the server's
\* test on the same two positions
InitDetect ==
    /\ Idle
    /\ probe \in [fn : {"checkOBBCollision"}, carA : DetectCars, carB : DetectCars,
                  out : {<<>>}]

DetectProbe ==
    /\ probe.fn = "checkOBBCollision"
    /\ probe.out = <<>>
    /\ probe' = [probe EXCEPT !.out =
                    <<[ab |-> checkOBBCollision(probe.carA, probe.carB),
                       ba |-> checkOBBCollision(probe.carB, probe.carA),
                       server |-> PairCollides(probe.carA.position, probe.carB.position)]>>]
    /\ UNCHANGED <<now, conn, players, rooms, socketRooms, emitted, logged, lastEvent, steps>>

SpecDetect == InitDetect /\ [][DetectProbe]_vars

\* velocities given to the resolver
ResolveVelocities ==
    {UVec(5, 0, 0), UVec(-5, 0, 0), UVec(1, 0, 0), UVec(0, 0, 0), UVec(0, 2, -5),
     UVec(-1, 0, 3)}

\* the member of a room that has car's position and the given velocity
PlayerFor(id, car, velocity) ==
    [id |-> id, name |-> <<"a">>, roomId |-> 1, position |-> car.position,
     rotation |-> ZeroVec, velocity |-> velocity]

\* the resolver on its own: resolveCarCollision twice in a row, and the server's
\* pair resolution on the same positions and velocities
InitResolve ==
    /\ Idle
    /\ probe \in [fn : {"resolveCarCollision"},
                  carA : {Car(UVec(0, 0, 0), 0, size) : size \in Footprints},
                  carB : {Car(pos, q, [x |-> 12 * Scale, z |-> 24 * Scale]) :
                             pos \in {UVec(3, 0, 0), UVec(0, 0, 0), UVec(-3, 0, -4),
                                      UVec(20, 0, 0), UVec(0, 0, 13)},
                             q \in 0..1},
                  velocityA : ResolveVelocities,
                  velocityB : ResolveVelocities,
                  out : {<<>>},
                  server : {<<>>}]

ResolveProbe ==
    /\ probe.fn = "resolveCarCollision"
    /\ Len(probe.out) < 2
    /\ LET from == IF probe.out = <<>> THEN probe ELSE probe.out[Len(probe.out)]
       IN probe' = [probe EXCEPT
                       !.out = Append(@, resolveCarCollision(from.carA, from.carB,
                                                             from.velocityA, from.velocityB)),
                       !.server = IF probe.out = <<>>
                                  THEN <<ResolvePair(<<PlayerFor(1, probe.carA, probe.velocityA),
                                                       PlayerFor(2, probe.carB, probe.velocityB)>>,
                                                     1, 2)>>
                                  ELSE @]
    /\ UNCHANGED <<now, conn, players, rooms, socketRooms, emitted, logged, lastEvent, steps>>

SpecResolve == InitResolve /\ [][ResolveProbe]_vars

\* the members of a room whose places on the spawn grid are the counts in slots,
\* each at rest where getRandomSpawnPosition put it
SpawnedMembers(slots) ==
    LET RECURSIVE Place(_, _)
        Place(rest, id) ==
            IF rest = {} THEN <<>>
            ELSE LET c == MinOf(rest)
                 IN <<[id |-> id, name |-> <<"a">>, roomId |-> 1,
                       position |-> SpawnAt(c), rotation |-> ZeroVec,
                       velocity |-> ZeroVec]>> \o Place(rest \ {c}, id + 1)
    IN Place(slots, 1)

\* the arbitration pass on its own, over rooms of members at rest at spawn positions
InitPass ==
    /\ Idle
    /\ probe \in [fn : {"handlePlayerCollisions"},
                  slots : SUBSET (0..(maxPlayersPerRoom - 1)),
                  out : {<<>>}]

PassProbe ==
    /\ probe.fn = "handlePlayerCollisions"
    /\ probe.out = <<>>
    /\ probe' = [probe EXCEPT !.out = <<handlePlayerCollisions(SpawnedMembers(probe.slots))>>]
    /\ UNCHANGED <<now, conn, players, rooms, socketRooms, emitted, logged, lastEvent, steps>>

SpecPass == InitPass /\ [][PassProbe]_vars

\* key states given to updatePhysics
KeyStates ==
    {{}, {"KeyW"}, {"KeyS", "KeyW"}, {"ArrowLeft"}, {"KeyW", "KeyD"}, {"Space"}}

\* frame times, in 1/Scale seconds: none, a 60 Hz frame, a long frame
DeltaTimes == {0, 2, 100}

\* velocities the engine may hold when updatePhysics is called
PhysicsVelocities ==
    {UVec(0, 0, 0), UVec(3, 2, -4), UVec(0, 0, -20), UVec(81, 0, 0), UVec(60, 0, -80),
     UVec(0, 90, 0)}

\* updatePhysics on its own: PhysicsSteps calls in a row on one car, with one
\* frame time and any key state at each call
InitPhysics ==
    /\ Idle
    /\ probe \in [fn : {"updatePhysics"},
                  car : {Car(UVec(0, y, 0), q, [x |-> 12 * Scale, z |-> 24 * Scale]) :
                            y \in {0, 3}, q \in 0..1},
                  physics : [velocity : PhysicsVelocities, turnSpeed : {0}],
                  keys : {{}},
                  deltaTime : DeltaTimes,
                  calls : {0}]

PhysicsStep ==
    /\ probe.fn = "updatePhysics"
    /\ probe.calls < PhysicsSteps
    /\ \E keys \in KeyStates :
          LET r == updatePhysics(probe.car, probe.physics, keys, probe.deltaTime)
          IN probe' = [probe EXCEPT !.car = r.car, !.physics = r.physics, !.keys = keys,
                                    !.calls = @ + 1]
    /\ UNCHANGED <<now, conn, players, rooms, socketRooms, emitted, logged, lastEvent, steps>>

SpecPhysics == InitPhysics /\ [][PhysicsStep]_vars

\* ------------------------------------------------- client network events
\* The game object of one browser tab: playerId, playerCar, the engine's
\* velocity, the otherPlayers map, the UI's otherPlayers map (its keys), the
\* model loads that have not completed, and for each player what the last
\* network event about them said.

\* the socket id of this client and of the others
OwnId == 1
PeerIds == 2..(ClientPeers + 1)

\* new MultiplayerCarGame(): no player id, no car, empty maps
NewClient(velocity) ==
    [fn |-> "client", stage |-> "connected", playerId |-> Undefined,
     playerCar |-> Undefined, velocity |-> velocity, roomPlayers |-> {},
     otherPlayers |-> <<>>, ui |-> {}, pending |-> {},
     last |-> [id \in PeerIds |-> "none"],
     event |-> [type |-> "none", id |-> Undefined], handled |-> 0]

\* the call of this.loadCarModel() in createOtherPlayer: a load that completes later
createOtherPlayer(c, playerData, thenUi) ==
    [c EXCEPT !.pending = @ \cup {[id |-> playerData.id, position |-> playerData.position,
                                   thenUi |-> thenUi, n |-> c.handled]}]

\* the rest of createOtherPlayer once the model has loaded: otherPlayers.set
createOtherPlayerLoaded(c, task) ==
    LET car == [position |-> task.position, rotationY |-> 0, lastVelocity |-> Undefined]
    IN [c EXCEPT !.otherPlayers = [k \in DOMAIN @ \cup {task.id} |->
                                      IF k = task.id THEN car ELSE @[k]]]

\* UIManager.addOtherPlayer, UIManager.removeOtherPlayer
addOtherPlayer(c, id) == [c EXCEPT !.ui = @ \cup {id}]

uiRemoveOtherPlayer(c, id) == [c EXCEPT !.ui = @ \ {id}]

\* position.lerp(target, 0.1)
Lerp(from, to) ==
    Vec(from.x + Div(to.x - from.x, 10), from.y + Div(to.y - from.y, 10),
        from.z + Div(to.z - from.z, 10))

\* a reconciliation that also snaps the local car to the server's state
updateOtherPlayerHardCorrects(c, data) ==
    IF data.id = c.playerId /\ c.playerCar # Undefined
    THEN [c EXCEPT !.playerCar = [position |-> data.position, rotationY |-> data.rotation.y],
                   !.velocity = data.velocity]
    ELSE IF data.id \notin DOMAIN c.otherPlayers THEN c
    ELSE LET car == c.otherPlayers[data.id]
             moved == Lerp(car.position, data.position)
         IN [c EXCEPT !.otherPlayers[data.id] =
                 [position |-> [moved EXCEPT !.y = 0], rotationY |-> data.rotation.y,
                  lastVelocity |-> data.velocity]]

\* updateOtherPlayer(data)
updateOtherPlayer(c, data) ==
    IF data.id \notin DOMAIN c.otherPlayers THEN c
    ELSE LET car == c.otherPlayers[data.id]
             moved == Lerp(car.position, data.position)
         IN [c EXCEPT !.otherPlayers[data.id] =
                 [position |-> [moved EXCEPT !.y = 0], rotationY |-> data.rotation.y,
                  lastVelocity |-> data.velocity]]

\* removeOtherPlayer(playerId)
removeOtherPlayer(c, playerId) ==
    [c EXCEPT !.otherPlayers = [k \in DOMAIN @ \ {playerId} |-> @[k]]]

Handled(c, type, id) ==
    [c EXCEPT !.event = [type |-> type, id |-> id], !.handled = @ + 1]

RECURSIVE AddRoomPlayers(_, _)
\* data.room.players.forEach: start a load and list the player, own id left out
AddRoomPlayers(c, ids) ==
    IF ids = {} THEN c
    ELSE LET id == CHOOSE i \in ids : \A j \in ids : i <= j
             next == IF id # c.playerId
                     THEN addOtherPlayer(createOtherPlayer(c, [id |-> id,
                                             position |-> SpawnAt(id - 1)], FALSE), id)
                     ELSE c
         IN AddRoomPlayers(next, ids \ {id})

ClientSteps(c) ==
    /\ probe' = c
    /\ UNCHANGED <<now, conn, players, rooms, socketRooms, emitted, logged, lastEvent, steps>>

\* on('joined'), up to the await of createPlayerCar
ClientJoined ==
    /\ probe.fn = "client"
    /\ probe.stage = "connected"
    /\ probe.handled < ClientEvents
    /\ \E others \in SUBSET PeerIds :
          ClientSteps(Handled([probe EXCEPT
              !.stage = "loadingOwn", !.playerId = OwnId,
              !.roomPlayers = others \cup {OwnId},
              !.last = [id \in PeerIds |-> IF id \in others THEN "joined" ELSE @[id]]],
              "joined", OwnId))

\* on('joined'), after the await: the own car, then the players of the room
ClientOwnCarLoaded ==
    /\ probe.fn = "client"
    /\ probe.stage = "loadingOwn"
    /\ ClientSteps(AddRoomPlayers(
          [probe EXCEPT !.stage = "playing", !.roomPlayers = {},
                        !.playerCar = [position |-> SpawnAt(OwnId - 1), rotationY |-> 0]],
          probe.roomPlayers))

\* on('playerJoined'), up to the await: the server sends it to the others of
\* the room only, so never with the receiver's own id
ClientPlayerJoined ==
    /\ probe.fn = "client"
    /\ probe.stage # "connected"
    /\ probe.handled < ClientEvents
    /\ \E id \in PeerIds :
          ClientSteps(Handled(createOtherPlayer(
              [probe EXCEPT !.last[id] = "joined"],
              [id |-> id, position |-> SpawnAt(id - 1)], TRUE), "playerJoined", id))

\* a model load completes or fails; after it, on('playerJoined') lists the player
ClientLoadDone ==
    /\ probe.fn = "client"
    /\ \E task \in probe.pending, ok \in BOOLEAN :
          LET rest == [probe EXCEPT !.pending = @ \ {task}]
              loaded == IF ok THEN createOtherPlayerLoaded(rest, task) ELSE rest
          IN ClientSteps(IF task.thenUi THEN addOtherPlayer(loaded, task.id) ELSE loaded)

\* the state a playerUpdate reports
ReportedStates ==
    {[id |-> id, position |-> UVec(30, 0, 40), rotation |-> Vec(0, Scale, 0),
      velocity |-> UVec(5, 0, 0)] : id \in {OwnId} \cup PeerIds}

\* on('playerUpdate')
ClientPlayerUpdate ==
    /\ probe.fn = "client"
    /\ probe.stage # "connected"
    /\ probe.handled < ClientEvents
    /\ \E data \in ReportedStates :
          ClientSteps(Handled(updateOtherPlayer(probe, data), "playerUpdate", data.id))

\* on('playerLeft')
ClientPlayerLeft ==
    /\ probe.fn = "client"
    /\ probe.stage # "connected"
    /\ probe.handled < ClientEvents
    /\ \E id \in PeerIds :
          ClientSteps(Handled(uiRemoveOtherPlayer(removeOtherPlayer(
              [probe EXCEPT !.last[id] = "left"], id), id), "playerLeft", id))

InitClient ==
    /\ Idle
    /\ probe \in {NewClient(v) : v \in {ZeroVec, UVec(0, 0, -20)}}

NextClient ==
    \/ ClientJoined
    \/ ClientOwnCarLoaded
    \/ ClientPlayerJoined
    \/ ClientLoadDone
    \/ ClientPlayerUpdate
    \/ ClientPlayerLeft

SpecClient == InitClient /\ [][NextClient]_vars

\* ------------------------------------------------------ animation frames
\* The game object while playing: the local car, the engine's state, the
\* otherPlayers map in insertion order (each car with userData.lastVelocity),
\* the last position update pushed, the collision reports of the last frame.

\* NetworkManager.sendCollision(data): the 'collision' message of the client
\* to server events, carrying {otherPlayerId, position, velocity}
sendCollision(data) == [type |-> "collision", data |-> data]

\* sendPositionUpdate(): the update handed to networkManager.updatePosition
sendPositionUpdate(g) ==
    [g EXCEPT !.pushed = [id |-> OwnId, position |-> g.playerCar.position,
                          velocity |-> g.physics.velocity]]

\* userData.lastVelocity?.x || 0, and so on
LastVelocityOf(other) ==
    IF other.lastVelocity = Undefined THEN ZeroVec ELSE other.lastVelocity

\* the body of the loop after resolveCarCollision has returned r for the
\* i-th car: both cars as it left them, the report, the local velocity
Resolved(i, h, r) ==
    LET game == [h.game EXCEPT !.playerCar = r.carA, !.otherPlayers[i].car = r.carB]
        report == sendCollision([otherPlayerId |-> h.game.otherPlayers[i].id,
                                 position |-> r.carA.position,
                                 velocity |-> r.velocityA])
    IN [game |-> IF h.game.hasSendCollision
                 THEN [game EXCEPT !.reports = Append(@, report)]
                 ELSE game,
        playerVelocity |-> r.velocityA,
        collisionOccurred |-> TRUE,
        thrown |-> ~h.game.hasSendCollision]

\* the body of the loop of handleCollisions for the i-th car of otherPlayers
CollideWith(i, h, other) ==
    IF ~checkOBBCollision(h.game.playerCar, other.car) THEN h
    ELSE Resolved(i, h, resolveCarCollision(h.game.playerCar, other.car,
                                            h.playerVelocity, LastVelocityOf(other)))

RECURSIVE CollideFrom(_, _)
\* the loop of handleCollisions from the i-th car of otherPlayers on; h holds
\* the game, the local playerVelocity, collisionOccurred, and whether a call
\* has thrown
CollideFrom(i, h) ==
    IF i > Len(h.game.otherPlayers) \/ h.thrown THEN h
    ELSE CollideFrom(i + 1, CollideWith(i, h, h.game.otherPlayers[i]))

\* the end of handleCollisions: physicsEngine.setVelocity if a collision occurred
SetCollisionVelocity(h) ==
    IF h.collisionOccurred /\ ~h.thrown
    THEN [h.game EXCEPT !.physics.velocity = h.playerVelocity, !.thrown = FALSE]
    ELSE [h.game EXCEPT !.thrown = h.thrown]

\* handleCollisions(): the game after it; thrown says whether it threw
handleCollisions(g) ==
    SetCollisionVelocity(CollideFrom(1, [game |-> g, playerVelocity |-> g.physics.velocity,
                                         collisionOccurred |-> FALSE, thrown |-> FALSE]))

\* the game after the call of updatePhysics that returned moved
Integrated(g, keys, moved) ==
    [g EXCEPT !.playerCar = moved.car, !.physics = moved.physics, !.reports = <<>>,
              !.keys = keys, !.frames = @ + 1]

\* the end of the frame: the push, when it is due and nothing has thrown
PushWhenDue(g, due) == IF due /\ ~g.thrown THEN sendPositionUpdate(g) ELSE g

\* animate(): one frame; due says whether the update interval has passed
animate(g, keys, due) ==
    PushWhenDue(handleCollisions(Integrated(g, keys,
        updatePhysics(g.playerCar, g.physics, keys, g.deltaTime))), due)

\* a 12 x 24 car on the x axis, pointing along it
CarOnAxis(x) == Car(UVec(x, 0, 0), 1, [x |-> 12 * Scale, z |-> 24 * Scale])

\* the cars of the other players: one ahead of the local car, and perhaps one
\* behind it
OtherCars ==
    {<<[id |-> 2, car |-> CarOnAxis(x), lastVelocity |-> v]>> :
        x \in {-12, -14}, v \in {Undefined, UVec(80, 0, 0), UVec(20, 0, 0)}}
    \cup {<<[id |-> 2, car |-> CarOnAxis(-12), lastVelocity |-> v],
            [id |-> 3, car |-> CarOnAxis(13), lastVelocity |-> UVec(-60, 0, 0)]>> :
            v \in {Undefined, UVec(80, 0, 0)}}

\* A playing client driving along the x axis, where the yaw of every car stays
\* a multiple of a quarter turn. hasSendCollision says whether the build's
\* NetworkManager has the method handleCollisions calls.
InitFrame ==
    /\ Idle
    /\ \E velocity \in {UVec(-80, 0, 0), UVec(-40, 0, 0), ZeroVec},
          others \in OtherCars, has \in BOOLEAN :
          probe = [fn |-> "animate",
                   playerCar |-> CarOnAxis(0),
                   physics |-> [velocity |-> velocity, turnSpeed |-> 0],
                   otherPlayers |-> others,
                   hasSendCollision |-> has,
                   deltaTime |-> 2,
                   keys |-> {},
                   reports |-> <<>>,
                   pushed |-> Undefined,
                   thrown |-> FALSE,
                   frames |-> 0]

Frame ==
    /\ probe.fn = "animate"
    /\ probe.frames < FrameSteps
    /\ \E keys \in {{}, {"KeyW"}, {"KeyS"}}, due \in BOOLEAN :
          probe' = animate(probe, keys, due)
    /\ UNCHANGED <<now, conn, players, rooms, socketRooms, emitted, logged, lastEvent, steps>>

SpecFrame == InitFrame /\ [][Frame]_vars

\* ------------------------------------------------------------------ claims
\* the model's own consistency: every registered id refers to an entry of a room
RegistryRefsValid ==
    \A s \in DOMAIN players :
        MapHas(rooms, players[s]) /\ MapHas(MapGet(rooms, players[s]).players, s)
        /\ PlayerOf(s).roomId = players[s]

\* the ids of the rooms whose member map holds s
RoomsHolding(s) ==
    {rooms[i].id : i \in {j \in 1..Len(rooms) : MapHas(rooms[j].players, s)}}

\* this step is the join handler run for s with a name that passes validation
JoinAcceptedStep(s) ==
    /\ steps' = steps + 1
    /\ lastEvent'.type = "join"
    /\ lastEvent'.socket = s
    /\ ~NameThrows(lastEvent'.data.name)

\* C1: no room ever holds more than maxPlayersPerRoom members, and a join that
\* finds every existing room full appends a new room whose only member is the
\* joining player, leaving the existing rooms as they were.
C1_CapacityAndOverflow ==
    /\ [](\A i \in 1..Len(rooms) : Len(rooms[i].players) <= maxPlayersPerRoom)
    /\ [][\A s \in 1..Len(conn) :
            (JoinAcceptedStep(s)
             /\ \A i \in 1..Len(rooms) : Len(rooms[i].players) >= maxPlayersPerRoom)
            => /\ Len(rooms') = Len(rooms) + 1
               /\ \A i \in 1..Len(rooms) : rooms'[i] = rooms[i]
               /\ MapKeys(rooms'[Len(rooms')].players) = {s}
               /\ Len(rooms'[Len(rooms')].players) = 1
               /\ s \in DOMAIN players'
               /\ players'[s] = rooms'[Len(rooms')].id]_vars

\* C1 witness: a ninth player has just joined; the first room holds eight members
\* and the player is alone in a second room
C1_Witness ==
    /\ lastEvent.type = "join"
    /\ Len(rooms) = 2
    /\ Len(rooms[1].players) = maxPlayersPerRoom
    /\ MapKeys(rooms[2].players) = {lastEvent.socket}
    /\ lastEvent.socket \notin MapKeys(rooms[1].players)
    /\ Cardinality(DOMAIN players) = maxPlayersPerRoom + 1

\* this step is the disconnect of the only member of rooms[i]
LastMemberLeaves(i) ==
    /\ steps' = steps + 1
    /\ lastEvent'.type = "disconnect"
    /\ lastEvent'.socket \in DOMAIN players
    /\ players[lastEvent'.socket] = rooms[i].id
    /\ MapKeys(rooms[i].players) = {lastEvent'.socket}

C3_RegistryMatchesRooms ==
    \A s \in 1..Len(conn) :
        /\ (s \in DOMAIN players) <=> (Cardinality(RoomsHolding(s)) = 1)
        /\ (s \in DOMAIN players) => RoomsHolding(s) = {PlayerOf(s).roomId}

\* the playerUpdate messages among those the last handler emitted
PlayerUpdates == SelectSeq(emitted, LAMBDA m : m.ev = "playerUpdate")

\* C4: after an accepted updatePosition (registered sender, all three fields
\* present) the handler has emitted exactly one playerUpdate per member of the
\* sender's room, carrying that member's state, each to every member of the
\* room, the sender included.
C4_UpdateBroadcastsRoom ==
    (/\ lastEvent.type = "updatePosition"
     /\ lastEvent.socket \in DOMAIN players
     /\ lastEvent.data.position # Undefined
     /\ lastEvent.data.rotation # Undefined
     /\ lastEvent.data.velocity # Undefined)
    => LET members == MapGet(rooms, players[lastEvent.socket]).players
       IN /\ Len(PlayerUpdates) = Len(members)
          /\ \A k \in 1..Len(PlayerUpdates) :
                /\ PlayerUpdates[k].data = PlayerUpdateOf(members[k])
                /\ MapKeys(members) \subseteq PlayerUpdates[k].to
                /\ lastEvent.socket \in PlayerUpdates[k].to

\* C5: the playerUpdate messages of one handler form one batch for one room:
\* one message per member in member order, each carrying the member's state as
\* the handler's single pass left it, all sent to the same set of sockets,
\* which holds every registered member of that room.
C5_OneBatchPerHandler ==
    PlayerUpdates # <<>> =>
        \E i \in 1..Len(rooms) :
            /\ Len(PlayerUpdates) = Len(rooms[i].players)
            /\ \A k \in 1..Len(PlayerUpdates) :
                  /\ PlayerUpdates[k].data = PlayerUpdateOf(rooms[i].players[k])
                  /\ PlayerUpdates[k].to = InRoom(socketRooms, rooms[i].id)
                  /\ {s \in DOMAIN players : players[s] = rooms[i].id} \subseteq PlayerUpdates[k].to

\* C5 witness: a handler whose pass resolved a collision has broadcast a room
\* of at least two members to at least two sockets
C5_Witness ==
    /\ lastEvent.type \in {"updatePosition", "collision"}
    /\ Len(PlayerUpdates) >= 2
    /\ Cardinality(PlayerUpdates[1].to) >= 2
    /\ \E k \in 1..Len(logged) : logged[k].text = "Server collision"

\* C6: every member of every room has position.y = 0 and velocity.y = 0.
C6_GroundPinned ==
    \A i \in 1..Len(rooms) : \A k \in 1..Len(rooms[i].players) :
        LET p == rooms[i].players[k]
        IN /\ p.position # Undefined => p.position.y = 0
           /\ p.velocity # Undefined => p.velocity.y = 0

HasPlayerPrefix(cs) ==
    Len(cs) >= Len(PlayerPrefix) /\ SubSeq(cs, 1, Len(PlayerPrefix)) = PlayerPrefix

C8_SpawnsDistinct ==
    [][\A s \in 1..Len(conn) :
          (JoinAcceptedStep(s) /\ s \notin DOMAIN players)
          => LET members == MapGet(rooms', players'[s]).players
             IN \A k \in 1..Len(members) :
                   members[k].id # s
                   => members[k].position # MapGet(members, s).position]_vars

\* C9: for member counts 0..maxPlayersPerRoom-1 getRandomSpawnPosition gives
\* different positions for different counts, and every position has y = 0.
C9_GridDistinct ==
    (probe.fn = "getRandomSpawnPosition" /\ probe.out # <<>>)
    => /\ probe.counts[1] # probe.counts[2] => probe.out[1] # probe.out[2]
       /\ probe.out[1].y = 0
       /\ probe.out[2].y = 0

\* C9 witness: the positions for the first and the last member count of a room
\* have been computed
C9_Witness ==
    /\ probe.fn = "getRandomSpawnPosition"
    /\ probe.out # <<>>
    /\ probe.counts = <<0, maxPlayersPerRoom - 1>>
    /\ probe.out[1] # probe.out[2]

\* C10: a handler step for an updatePosition that lacks position, rotation or
\* velocity, or for a collision report that lacks position or velocity, changes
\* neither the registry nor any room and emits nothing.
C10_MalformedDropped ==
    [][(/\ steps' = steps + 1
        /\ \/ /\ lastEvent'.type = "updatePosition"
              /\ \/ lastEvent'.data.position = Undefined
                 \/ lastEvent'.data.rotation = Undefined
                 \/ lastEvent'.data.velocity = Undefined
           \/ /\ lastEvent'.type = "collision"
              /\ \/ lastEvent'.data.position = Undefined
                 \/ lastEvent'.data.velocity = Undefined)
       => /\ players' = players
          /\ rooms' = rooms
          /\ emitted' = <<>>]_vars

\* C11: an updatePosition, collision or chatMessage event from a connection
\* without a registered player (never joined, or disconnected) changes neither
\* the registry, the rooms, the room memberships nor the connections, and no
\* message is emitted.
C11_UnregisteredIgnored ==
    [][\A s \in 1..Len(conn) :
          (/\ lastEvent'.type \in {"updatePosition", "collision", "chatMessage"}
           /\ lastEvent'.socket = s
           /\ s \notin DOMAIN players)
          => /\ players' = players
             /\ rooms' = rooms
             /\ socketRooms' = socketRooms
             /\ conn' = conn
             /\ emitted' = <<>>]_vars

\* C11 witness: a well-formed chat message has arrived from a connection that
\* has closed, while another player is registered, and nothing was emitted
C11_Witness ==
    /\ lastEvent.type = "chatMessage"
    /\ ~MessageThrows(lastEvent.data.message)
    /\ conn[lastEvent.socket] = "closed"
    /\ lastEvent.socket \notin DOMAIN players
    /\ DOMAIN players # {}
    /\ emitted = <<>>

\* C12: a join with an invalid name, and a chat message of a registered player
\* that validateMessage rejects, each produce exactly one error event, sent to
\* the sender alone, and leave the registry and the rooms unchanged.
C12_ValidationErrorsSurfaced ==
    [][\A s \in 1..Len(conn) :
          (\/ /\ lastEvent'.type = "join"
              /\ lastEvent'.socket = s
              /\ NameThrows(lastEvent'.data.name)
           \/ /\ lastEvent'.type = "chatMessage"
              /\ lastEvent'.socket = s
              /\ s \in DOMAIN players
              /\ MessageThrows(lastEvent'.data.message))
          => /\ Len(emitted') = 1
             /\ emitted'[1].ev = "error"
             /\ emitted'[1].to = {s}
             /\ players' = players
             /\ rooms' = rooms]_vars

\* C13: the disconnect of a registered player removes it from the registry and
\* from the member map of the room its registry entry names; a disconnect event
\* for a connection that has already closed changes neither the registry nor
\* the rooms and emits nothing.
C13_DisconnectIdempotent ==
    [][\A s \in 1..Len(conn) :
          (lastEvent'.type = "disconnect" /\ lastEvent'.socket = s)
          => /\ s \notin DOMAIN players'
             /\ s \in DOMAIN players
                => (MapHas(rooms', players[s])
                    => ~MapHas(MapGet(rooms', players[s]).players, s))
             /\ conn[s] = "closed"
                => (players' = players /\ rooms' = rooms /\ emitted' = <<>>)]_vars

\* C13 witness: one of the players present from the start has disconnected and
\* the handler has then run once more for it (the first run logs, a repeated
\* one does not)
C13_Witness ==
    /\ lastEvent.type = "disconnect"
    /\ lastEvent.socket < maxPlayersPerRoom
    /\ conn[lastEvent.socket] = "closed"
    /\ logged = <<>>
    /\ rooms # <<>>

\* C14: once every connection has closed, the sweep has run and every room
\* still registered is older than maxAgeMinutes (the point after which no code
\* removes anything more), the server holds no players and no rooms.
C14_DrainedServerEmpty ==
    (/\ \A s \in 1..Len(conn) : conn[s] = "closed"
     /\ lastEvent.type = "sweep"
     /\ \A i \in 1..Len(rooms) : now - rooms[i].createdAt > maxAgeMinutes)
    => (DOMAIN players = {} /\ rooms = <<>>)

\* C15: an updatePosition or collision event of a player registered in room R
\* leaves every other room as it was, and none of the playerUpdate messages it
\* causes goes to a connection registered in another room.
C15_RoomsIsolated ==
    [][\A s \in 1..Len(conn) :
          (/\ lastEvent'.type \in {"updatePosition", "collision"}
           /\ lastEvent'.socket = s
           /\ s \in DOMAIN players)
          => /\ \A i \in 1..Len(rooms) :
                   rooms[i].id # players[s] => MapGet(rooms', rooms[i].id) = rooms[i]
             /\ \A k \in 1..Len(emitted') :
                   emitted'[k].ev = "playerUpdate"
                   => \A t \in emitted'[k].to :
                         t \in DOMAIN players => players[t] = players[s]]_vars

\* C16: for every pair of cars the server's test (line 172) says "colliding"
\* exactly when the client's checkOBBCollision does.
C16_SameDetector ==
    (probe.fn = "checkOBBCollision" /\ probe.out # <<>>)
    => probe.out[1].server = probe.out[1].ab

\* the relative velocity along the collision normal before the first call
ProbeVelocityAlongNormal ==
    VelocityAlongNormal(probe.velocityA, probe.velocityB,
                        CollisionNormal(probe.carA.position, probe.carB.position))

\* C17: when the relative velocity along the normal is positive,
\* resolveCarCollision returns both cars (position, yaw) and both velocities as
\* they were, on the first call and on the second, the pair is still
\* separating after each call, and the server's pair resolution leaves both
\* members as they were.
C17_SeparatingUntouched ==
    (probe.fn = "resolveCarCollision" /\ ProbeVelocityAlongNormal > 0)
    => /\ \A k \in 1..Len(probe.out) :
             /\ ~probe.out[k].resolved
             /\ probe.out[k].carA = probe.carA
             /\ probe.out[k].carB = probe.carB
             /\ probe.out[k].velocityA = probe.velocityA
             /\ probe.out[k].velocityB = probe.velocityB
             /\ VelocityAlongNormal(probe.out[k].velocityA, probe.out[k].velocityB,
                                    CollisionNormal(probe.out[k].carA.position,
                                                    probe.out[k].carB.position)) > 0
       /\ \A k \in 1..Len(probe.server) :
             probe.server[k].players = <<PlayerFor(1, probe.carA, probe.velocityA),
                                         PlayerFor(2, probe.carB, probe.velocityB)>>

\* C17 witness: two overlapping cars that move apart have been through the
\* resolver twice and through the server's pair resolution
C17_Witness ==
    /\ probe.fn = "resolveCarCollision"
    /\ ProbeVelocityAlongNormal > 0
    /\ checkOBBCollision(probe.carA, probe.carB)
    /\ PairCollides(probe.carA.position, probe.carB.position)
    /\ Len(probe.out) = 2
    /\ Len(probe.server) = 1

\* the component of velocity v along the normal n
Along(v, n) == Div(v.x * n.x + v.z * n.z, Scale)

\* the square of the distance of two positions in the horizontal plane
Distance2DSq(posA, posB) ==
    (posA.x - posB.x) * (posA.x - posB.x) + (posA.z - posB.z) * (posA.z - posB.z)

\* C18 as stated: for a closing pair the resolver does not skip, each body's
\* velocity component along the normal changes sign (a component of 0 may
\* become anything), the relative velocity along the normal ends non-negative
\* and the 2D distance does not shrink.
C18_EachBodyReverses ==
    (probe.fn = "resolveCarCollision" /\ ProbeVelocityAlongNormal < 0 /\ Len(probe.out) >= 1)
    => LET n == CollisionNormal(probe.carA.position, probe.carB.position)
           r == probe.out[1]
       IN /\ r.resolved
          /\ Along(probe.velocityA, n) * Along(r.velocityA, n) <= 0
          /\ Along(probe.velocityB, n) * Along(r.velocityB, n) <= 0
          /\ VelocityAlongNormal(r.velocityA, r.velocityB, n) >= 0
          /\ Distance2DSq(r.carA.position, r.carB.position)
                >= Distance2DSq(probe.carA.position, probe.carB.position)

\* C18, amended: for a closing pair the resolver does not skip, the relative
\* velocity along the normal ends positive, the 2D distance does not shrink,
\* and when the two bodies move toward each other along the normal both
\* components along the normal change sign.
C18_RelativeVelocityReverses ==
    (probe.fn = "resolveCarCollision" /\ ProbeVelocityAlongNormal < 0 /\ Len(probe.out) >= 1)
    => LET n == CollisionNormal(probe.carA.position, probe.carB.position)
           r == probe.out[1]
       IN /\ r.resolved
          /\ VelocityAlongNormal(r.velocityA, r.velocityB, n) > 0
          /\ Distance2DSq(r.carA.position, r.carB.position)
                >= Distance2DSq(probe.carA.position, probe.carB.position)
          /\ (Along(probe.velocityA, n) < 0 /\ Along(probe.velocityB, n) > 0)
             => (Along(r.velocityA, n) > 0 /\ Along(r.velocityB, n) < 0)

\* C18 witness: the spec's scenario, cars 3 apart on the x axis closing at 5
\* each, after one call that pushed them apart
C18_Witness ==
    /\ probe.fn = "resolveCarCollision"
    /\ probe.carA.position = UVec(0, 0, 0)
    /\ probe.carB.position = UVec(3, 0, 0)
    /\ probe.velocityA = UVec(5, 0, 0)
    /\ probe.velocityB = UVec(-5, 0, 0)
    /\ Len(probe.out) >= 1
    /\ probe.out[1].velocityA.x < 0
    /\ probe.out[1].velocityB.x > 0
    /\ Distance2DSq(probe.out[1].carA.position, probe.out[1].carB.position)
          > Distance2DSq(probe.carA.position, probe.carB.position)

\* C19: checkOBBCollision(A, B) = checkOBBCollision(B, A) for every two cars.
C19_DetectorSymmetric ==
    (probe.fn = "checkOBBCollision" /\ probe.out # <<>>)
    => probe.out[1].ab = probe.out[1].ba

\* C19 witness: two cars of different footprint, yaw and position for which
\* the detector reports a collision
C19_Witness ==
    /\ probe.fn = "checkOBBCollision"
    /\ probe.out # <<>>
    /\ probe.carA.size # probe.carB.size
    /\ probe.carA.quarter # probe.carB.quarter
    /\ probe.carA.position # probe.carB.position
    /\ probe.out[1].ab
    /\ probe.out[1].ba

\* twice the half-diagonal of a car's footprint, rounded down
Diagonal(car) == ISqrt(car.size.x * car.size.x + car.size.z * car.size.z)

\* the centres are farther apart than the sum of the half-diagonals
BeyondDiagonals(carA, carB) ==
    4 * DistanceSq(carA.position, carB.position)
        > (Diagonal(carA) + Diagonal(carB)) * (Diagonal(carA) + Diagonal(carB))

\* C20: checkOBBCollision reports no collision for two cars whose centres are
\* farther apart than the sum of the half-diagonals of their footprints.
C20_FarApartNeverCollide ==
    (probe.fn = "checkOBBCollision" /\ probe.out # <<>>
        /\ BeyondDiagonals(probe.carA, probe.carB))
    => ~probe.out[1].ab

\* C20 witness: two cars that far apart whose footprints overlap on every axis
\* the corner test looks at (one is high above the other), reported as not
\* colliding
C20_Witness ==
    /\ probe.fn = "checkOBBCollision"
    /\ probe.out # <<>>
    /\ BeyondDiagonals(probe.carA, probe.carB)
    /\ checkRotatedAABBCollision(probe.carA, probe.carB)
    /\ ~probe.out[1].ab

\* C25: when the two centres coincide in the horizontal plane, a call that
\* resolves the pair (client resolveCarCollision, and the server's pair
\* resolution) leaves the two positions distinct.
C25_CoincidentSeparated ==
    (/\ probe.fn = "resolveCarCollision"
     /\ Len(probe.out) >= 1
     /\ Distance2DSq(probe.carA.position, probe.carB.position) = 0)
    => /\ probe.out[1].resolved
          => Distance2DSq(probe.out[1].carA.position, probe.out[1].carB.position) > 0
       /\ probe.server[1].logs # <<>>
          => Distance2DSq(probe.server[1].players[1].position,
                          probe.server[1].players[2].position) > 0

\* C26: for two cars at the same height checkOBBCollision gives the result of
\* the four-axis projection test, that is, the fast reject never turns a
\* reported collision into "no collision".
C26_RejectIsSuperset ==
    (/\ probe.fn = "checkOBBCollision"
     /\ probe.out # <<>>
     /\ probe.carA.position.y = probe.carB.position.y)
    => probe.out[1].ab = checkRotatedAABBCollision(probe.carA, probe.carB)

\* C27: the size computeCarBoundingBox returns for a car is the size it
\* returns for the same car at yaw 0.
C27_FootprintFixed ==
    (probe.fn = "checkOBBCollision" /\ probe.out # <<>>)
    => computeCarBoundingBox(probe.carA)
          = computeCarBoundingBox([probe.carA EXCEPT !.quarter = 0])

\* C29: a pass over a room whose members are all at rest at the spawn
\* positions the server gave them changes no member's position or velocity.
C29_SpawnedRoomAtRest ==
    (probe.fn = "handlePlayerCollisions" /\ probe.out # <<>>)
    => probe.out[1].players = SpawnedMembers(probe.slots)

\* the square of the magnitude of a velocity
SpeedSq(v) == v.x * v.x + v.y * v.y + v.z * v.z

\* C21: after every call of updatePhysics the engine's velocity y and the
\* car's position y are 0.
C21_GroundedAfterStep ==
    (probe.fn = "updatePhysics" /\ probe.calls >= 1)
    => (probe.physics.velocity.y = 0 /\ probe.car.position.y = 0)

\* C21 witness: a car that started above the ground with a vertical velocity
\* has been through a call with the accelerator down
C21_Witness ==
    /\ probe.fn = "updatePhysics"
    /\ probe.calls = 1
    /\ "KeyW" \in probe.keys
    /\ probe.deltaTime > 0
    /\ probe.physics.velocity # ZeroVec
    /\ probe.physics.velocity.y = 0
    /\ probe.car.position.x # 0

\* the speed (two tenths of a unit) below which the decay is not visible at
\* the resolution of these numbers
negligibleSpeed == Scale \div 5

\* C22: a call of updatePhysics with no key down on a car moving faster than
\* the negligible speed leaves the engine with a strictly smaller speed.
C22_FrictionDecays ==
    [][(/\ probe.fn = "updatePhysics"
        /\ probe'.calls = probe.calls + 1
        /\ probe'.keys = {}
        /\ probe.deltaTime > 0
        /\ SpeedSq(probe.physics.velocity) > negligibleSpeed * negligibleSpeed)
       => SpeedSq(probe'.physics.velocity) < SpeedSq(probe.physics.velocity)]_vars

\* C22 witness: with a frame time above 0 the car has coasted through every
\* call and still moves
C22_Witness ==
    /\ probe.fn = "updatePhysics"
    /\ probe.calls = PhysicsSteps
    /\ probe.keys = {}
    /\ probe.deltaTime > 0
    /\ probe.physics.turnSpeed = 0
    /\ probe.physics.velocity.z < 0
    /\ probe.physics.velocity.z > -17 * Scale

\* what rounding may add to or take from a speed
speedTolerance == Scale \div 10

\* the speed is maxSpeed, within the tolerance
AtMaxSpeed(v) ==
    /\ SpeedSq(v) <= (maxSpeed + speedTolerance) * (maxSpeed + speedTolerance)
    /\ SpeedSq(v) >= (maxSpeed - speedTolerance) * (maxSpeed - speedTolerance)

\* C23 as stated: a call of updatePhysics that starts with a speed above
\* maxSpeed ends with the speed maxSpeed.
C23_ClampedToMax ==
    [][(/\ probe.fn = "updatePhysics"
        /\ probe'.calls = probe.calls + 1
        /\ SpeedSq(probe.physics.velocity) > maxSpeed * maxSpeed)
       => AtMaxSpeed(probe'.physics.velocity)]_vars

\* C23, amended: after every call the speed is at most maxSpeed; it is
\* maxSpeed when the velocity after handbrake, acceleration and friction is
\* horizontal and still above maxSpeed.
C23_LimitedAfterFriction ==
    [][(probe.fn = "updatePhysics" /\ probe'.calls = probe.calls + 1)
       => LET damped == DampedVelocity(probe.car, probe.physics, probe'.keys,
                                       probe.deltaTime)
          IN /\ SpeedSq(probe'.physics.velocity)
                   <= (maxSpeed + speedTolerance) * (maxSpeed + speedTolerance)
             /\ (SpeedSq(damped) > maxSpeed * maxSpeed /\ damped.y = 0)
                => AtMaxSpeed(probe'.physics.velocity)]_vars

\* C23 witness: a car that started at speed 100 has been slowed to maxSpeed by
\* its first call
C23_Witness ==
    /\ probe.fn = "updatePhysics"
    /\ probe.calls = 1
    /\ probe.keys = {}
    /\ probe.physics.velocity.x > 0
    /\ probe.physics.velocity.z < 0
    /\ AtMaxSpeed(probe.physics.velocity)

\* C24: handling a playerUpdate never changes the local car or the engine's
\* velocity, and one with the client's own id changes no car at all; one for
\* a remote car moves that car a tenth of the way to the reported position.
C24_OwnUpdateIgnored ==
    [][(/\ probe.fn = "client"
        /\ probe'.handled = probe.handled + 1
        /\ probe'.event.type = "playerUpdate")
       => /\ probe'.playerCar = probe.playerCar
          /\ probe'.velocity = probe.velocity
          /\ probe'.event.id = probe.playerId => probe'.otherPlayers = probe.otherPlayers
          /\ \A id \in DOMAIN probe.otherPlayers :
                IF id = probe'.event.id
                THEN probe'.otherPlayers[id].position
                        = [Lerp(probe.otherPlayers[id].position, UVec(30, 0, 40))
                             EXCEPT !.y = 0]
                ELSE probe'.otherPlayers[id] = probe.otherPlayers[id]]_vars

\* C24 witness: a playing client with a remote car on screen has handled a
\* playerUpdate with its own id that reports another place than its car's
C24_Witness ==
    /\ probe.fn = "client"
    /\ probe.stage = "playing"
    /\ probe.event = [type |-> "playerUpdate", id |-> OwnId]
    /\ probe.playerId = OwnId
    /\ probe.playerCar # Undefined
    /\ probe.playerCar.position # UVec(30, 0, 40)
    /\ DOMAIN probe.otherPlayers # {}

\* C28: once playerLeft(P) is the last event handled about P and no model
\* load is pending, P is in neither the otherPlayers map nor the UI's list.
C28_LeftPlayerGone ==
    (probe.fn = "client" /\ probe.stage = "playing" /\ probe.pending = {})
    => \A id \in PeerIds :
          probe.last[id] = "left"
          => (id \notin DOMAIN probe.otherPlayers /\ id \notin probe.ui)

====
